---- MODULE Spec2Model ----
(***************************************************************************)
(* Model of libobjecttracker::ObjectTracker (src/src/object_tracker.cpp):  *)
(* the greedy initializer (ObjectTracker::initialize) and the per-frame    *)
(* ICP update with dynamics gating (ObjectTracker::runICP).                *)
(*                                                                         *)
(* Units.  Lengths are integers in units of 5 mm, so that the constant     *)
(* INIT_MAX_HAUSDORFF_DIST2 = (5 mm)^2 is 1.  Angles are integers in       *)
(* quarter turns, so that rotation matrices have entries in {-1,0,1} and   *)
(* atan2/asin are exact on them.  Time stamps are integer clock ticks.     *)
(*                                                                         *)
(* PCL's IterativeClosestPoint is an external library: each align() is     *)
(* modelled as a nondeterministic outcome (converged, final transform,     *)
(* fitness) drawn from a small set; the arguments the tracker hands to it  *)
(* are computed as the code computes them and recorded.                    *)
(***************************************************************************)
EXTENDS Integers, Sequences, FiniteSets, TLC

\* ------------------------------------------------------------------ bounds
\* Stamps handed to update() range over 0..MaxStamp (0 is the clock's epoch).
MaxStamp == 3
\* PointCloudLogger::log is called at most MaxFrames times on one file.
MaxFrames == 3
\* Assignment::setCost is called at most MaxSetCost times on one Assignment.
MaxSetCost == 3

\* ------------------------------------------------------- program constants
\* static int const N_YAW = 20
N_YAW == 20
\* static double const INIT_MAX_HAUSDORFF_DIST2 = 0.005 * 0.005, in (5 mm)^2
INIT_MAX_HAUSDORFF_DIST2 == 1
\* float closest = FLT_MAX: larger than every distance of the model
FLT_MAX == 10000
\* double bestErr = DBL_MAX: larger than every fitness score of the model
DBL_MAX == 1000000

\* ----------------------------------------------------------------- state
VARIABLES
  m_objects,        \* std::vector<Object> m_objects
  m_initialized,    \* bool m_initialized
  m_init_attempts,  \* int m_init_attempts
  m_logWarn,        \* whether a warning callback is installed
  pointCloud,       \* the caller's cloud, as it is after the last update
  calls,            \* the number of update calls so far
  last,             \* what the last update call did (see NoCall)
  file,             \* the bytes PointCloudLogger wrote to its file
  logged,           \* the frames handed to PointCloudLogger::log so far
  timestamps,       \* PointCloudPlayer::timestamps
  clouds,           \* PointCloudPlayer::clouds
  played,           \* whether the player loaded, and `logged` when it did
  m_agents,         \* Assignment::m_agents: agent -> vertex
  m_tasks,          \* Assignment::m_tasks: task -> vertex
  m_groups,         \* Assignment::m_groups: group -> vertex
  m_graph,          \* Assignment::m_graph: [vertices, edges]
  solution,         \* the caller's map after the last solve: <<agent, group>>
  costsSet          \* the <<agent, group>> pairs setCost was called with

trackerVars ==
  <<m_objects, m_initialized, m_init_attempts, m_logWarn, pointCloud, calls, last>>
logVars == <<file, logged, timestamps, clouds, played>>
assignmentVars == <<m_agents, m_tasks, m_groups, m_graph, solution, costsSet>>
vars == <<trackerVars, logVars, assignmentVars>>

\* --------------------------------------------------------------- geometry
Abs(n) == IF n < 0 THEN -n ELSE n

\* Eigen::Vector3f
Vec(x, y, z) == <<x, y, z>>
VAdd(a, b) == <<a[1] + b[1], a[2] + b[2], a[3] + b[3]>>
VSub(a, b) == <<a[1] - b[1], a[2] - b[2], a[3] - b[3]>>
VScale(s, a) == <<s * a[1], s * a[2], s * a[3]>>
\* squaredNorm(); norm() is its square root, and norms are compared through
\* their squares
Norm2(a) == a[1] * a[1] + a[2] * a[2] + a[3] * a[3]

\* 3x3 rotation matrices, rows first
Identity3 == << <<1, 0, 0>>, <<0, 1, 0>>, <<0, 0, 1>> >>
MatVec(m, v) ==
  << m[1][1] * v[1] + m[1][2] * v[2] + m[1][3] * v[3],
     m[2][1] * v[1] + m[2][2] * v[2] + m[2][3] * v[3],
     m[3][1] * v[1] + m[3][2] * v[2] + m[3][3] * v[3] >>
MatMul(a, b) ==
  [i \in 1..3 |-> [j \in 1..3 |->
     a[i][1] * b[1][j] + a[i][2] * b[2][j] + a[i][3] * b[3][j]]]

\* cos and sin of q quarter turns
CosQ(q) == CASE q % 4 = 0 -> 1 [] q % 4 = 2 -> -1 [] OTHER -> 0
SinQ(q) == CASE q % 4 = 1 -> 1 [] q % 4 = 3 -> -1 [] OTHER -> 0
RotX(q) == << <<1, 0, 0>>, <<0, CosQ(q), -SinQ(q)>>, <<0, SinQ(q), CosQ(q)>> >>
RotY(q) == << <<CosQ(q), 0, SinQ(q)>>, <<0, 1, 0>>, <<-SinQ(q), 0, CosQ(q)>> >>
RotZ(q) == << <<CosQ(q), -SinQ(q), 0>>, <<SinQ(q), CosQ(q), 0>>, <<0, 0, 1>> >>

\* Eigen::Affine3f: a rotation R and a translation t
\* pcl::getTransformation(x, y, z, roll, pitch, yaw)
getTransformation(x, y, z, roll, pitch, yaw) ==
  [R |-> MatMul(RotZ(yaw), MatMul(RotY(pitch), RotX(roll))), t |-> Vec(x, y, z)]

\* Affine3f * Vector3f
Apply(T, p) == VAdd(MatVec(T.R, p), T.t)

\* atan2(y, x) and asin(v) in quarter turns, on the entries of a rotation by
\* quarter turns
Atan2Q(y, x) ==
  CASE y = 0 /\ x > 0 -> 0
    [] y > 0 /\ x = 0 -> 1
    [] y = 0 /\ x < 0 -> 2
    [] y < 0 /\ x = 0 -> -1
    [] OTHER -> 0
AsinQ(v) == v

\* pcl::getTranslationAndEulerAngles(t, x, y, z, roll, pitch, yaw)
getTranslationAndEulerAngles(T) ==
  [x |-> T.t[1], y |-> T.t[2], z |-> T.t[3],
   roll |-> Atan2Q(T.R[3][2], T.R[3][3]),
   pitch |-> AsinQ(-T.R[3][1]),
   yaw |-> Atan2Q(T.R[2][1], T.R[1][1])]

\* ------------------------------------------------------ float quotients
\* A float quotient num/den.  den = 0 gives an infinity (num # 0) or a NaN
\* (num = 0), as IEEE division does; every comparison with a NaN is false.
Quot(num, den) == [num |-> num, den |-> den]
\* fabs(q) < limit
FabsLess(q, limit) ==
  IF q.den = 0 THEN FALSE ELSE Abs(q.num) < limit * Abs(q.den)
\* fabs(q) >= limit
FabsGeq(q, limit) ==
  IF q.den = 0 THEN q.num # 0 ELSE Abs(q.num) >= limit * Abs(q.den)

\* ---------------------------------------------------------- configuration
\* The tracker under study: two objects 12 units (6 cm) apart on the x axis,
\* each with its own two-marker configuration and dynamics configuration.
\* The third entry of each table is for a tracker of a single object: three
\* markers at (0,0,0), (0.1,0,0), (0,0.1,0) m and maxXVelocity = 2 m/s, which
\* is 4 units per tick of 10 ms.
Pt(x, y) == Vec(x, y, 0)

\* ObjectTracker::m_markerConfigurations (markers at least 3 units apart)
m_markerConfigurations ==
  << <<Pt(-2, 0), Pt(2, 0)>>, <<Pt(0, -2), Pt(0, 2)>>,
     <<Pt(0, 0), Pt(20, 0), Pt(0, 20)>> >>

\* ObjectTracker::m_dynamicsConfigurations (struct DynamicsConfiguration)
m_dynamicsConfigurations ==
  << [maxXVelocity |-> 1, maxYVelocity |-> 1, maxZVelocity |-> 1,
      maxPitchRate |-> 1, maxRollRate |-> 1, maxYawRate |-> 1,
      maxRoll |-> 2, maxPitch |-> 2, maxFitnessScore |-> 1],
     [maxXVelocity |-> 2, maxYVelocity |-> 2, maxZVelocity |-> 2,
      maxPitchRate |-> 3, maxRollRate |-> 3, maxYawRate |-> 3,
      maxRoll |-> 1, maxPitch |-> 1, maxFitnessScore |-> 1],
     [maxXVelocity |-> 4, maxYVelocity |-> 4, maxZVelocity |-> 4,
      maxPitchRate |-> 4, maxRollRate |-> 4, maxYawRate |-> 4,
      maxRoll |-> 2, maxPitch |-> 2, maxFitnessScore |-> 1] >>

\* the initialTransformation of each object handed to the constructor
InitialTransformations ==
  << getTransformation(0, 0, 0, 0, 0, 0), getTransformation(12, 0, 0, 0, 0, 0) >>

\* line 98: size_t const nObjs = m_objects.size()
nObjs == Len(m_objects)
Objs == 1..nObjs

\* Object::m_velocity is not initialised by Object::Object: it holds whatever
\* the memory held.  A velocity is the vector num divided by the scalar den.
UninitializedVelocities ==
  {[num |-> Vec(0, 0, 0), den |-> 1], [num |-> Vec(1, 0, 0), den |-> 1]}

\* Object::Object
Object(markerConfigurationIdx, dynamicsConfigurationIdx, initialTransformation, garbage) ==
  [m_markerConfigurationIdx |-> markerConfigurationIdx,
   m_dynamicsConfigurationIdx |-> dynamicsConfigurationIdx,
   m_lastTransformation |-> initialTransformation,
   m_velocity |-> garbage,
   m_lastValidTransform |-> 0,
   m_lastTransformationValid |-> FALSE]

\* Object::center()
center(object) == object.m_lastTransformation.t

\* the sum of the marker-configuration sizes of all objects
SumNpts ==
  LET RECURSIVE Sum(_)
      Sum(i) == IF i = 0 THEN 0
                ELSE Len(m_markerConfigurations[m_objects[i].m_markerConfigurationIdx])
                     + Sum(i - 1)
  IN Sum(nObjs)

\* ------------------------------------------------------------ sequences
\* std::vector::erase(begin() + idx), positions counted from 1
RemoveAt(s, pos) ==
  [j \in 1..(Len(s) - 1) |-> IF j < pos THEN s[j] ELSE s[j + 1]]

RECURSIVE InsertDesc(_, _)
InsertDesc(x, s) ==
  IF s = <<>> THEN <<x>>
  ELSE IF x >= Head(s) THEN <<x>> \o s
  ELSE <<Head(s)>> \o InsertDesc(x, Tail(s))

\* std::sort(objTakePts.rbegin(), objTakePts.rend()): highest first
RECURSIVE SortDescending(_)
SortDescending(s) ==
  IF s = <<>> THEN <<>> ELSE InsertDesc(Head(s), SortDescending(Tail(s)))

\* for (int idx : objTakePts) markers->erase(markers->begin() + idx)
RECURSIVE EraseAll(_, _)
EraseAll(markers, sortedPts) ==
  IF sortedPts = <<>> THEN markers
  ELSE EraseAll(RemoveAt(markers, Head(sortedPts)), Tail(sortedPts))

\* A faulty EraseMarkers: the markers an object takes stay in the cloud.
EraseMarkersSkipped(markers, objTakePts) == markers

\* lines 198-201: the object "takes" its markers out of the working cloud
EraseMarkers(markers, objTakePts) ==
  EraseAll(markers, SortDescending(objTakePts))

\* ------------------------------------------------- ObjectTracker::initialize
\* The working cloud `markers` is the private copy of the input cloud made on
\* line 96; it is kept as the sequence of the input cloud's indices still in
\* it, so that a point keeps its identity while others are erased.
CopyCloud(markersConst) == [i \in 1..Len(markersConst) |-> i]

\* A faulty working cloud: the caller's cloud itself instead of a copy, so the
\* caller sees every erasure.
CallerSeesWorkingCloud(markersConst, markers) ==
  [i \in 1..Len(markers) |-> markersConst[markers[i]]]

\* The caller's cloud when initialize returns: `markers` is a copy (line 96)
\* and markersConst is never written.
CallerCloudAfter(markersConst, markers) == markersConst

\* lines 113-121: closest, squared (FLT_MAX when there is no pair of objects)
Closest2(objects) ==
  LET pairs == {Norm2(VSub(center(objects[i]), center(objects[j]))) :
                  <<i, j>> \in {q \in (1..Len(objects)) \X (1..Len(objects)) : q[1] < q[2]}}
      all == pairs \cup {FLT_MAX * FLT_MAX}
  IN CHOOSE m \in all : \A n \in all : m <= n

\* the squared distance of the working cloud's point at position pos to q
Dist2(markersConst, markers, pos, q) ==
  Norm2(VSub(markersConst[markers[pos]], q))

\* the k nearest among points at squared distances d[pos]: the possible
\* answers (points at equal distance may come in either order)
KNearest(d, k) ==
  {S \in SUBSET DOMAIN d :
     /\ Cardinality(S) = k
     /\ \A i \in S : \A j \in (DOMAIN d) \ S : d[i] <= d[j]}

\* kdtree.nearestKSearch(query, k, ...) on the working cloud: the possible
\* answers, as sets of positions in it
nearestKSearch(markersConst, markers, q, k) ==
  KNearest([pos \in 1..Len(markers) |-> Dist2(markersConst, markers, pos, q)], k)

\* lines 143-147: the sum of the k nearest points (actualCenter before the
\* division by objNpts)
RECURSIVE SumPoints(_, _, _)
SumPoints(markersConst, markers, S) ==
  IF S = {} THEN Vec(0, 0, 0)
  ELSE LET pos == CHOOSE x \in S : TRUE
       IN VAdd(markersConst[markers[pos]],
               SumPoints(markersConst, markers, S \ {pos}))

\* line 148: (actualCenter - nominalCenter).norm() > max_deviation, with
\* actualCenter = sum / objNpts and max_deviation = closest / 3, compared
\* through the squares: 9 |sum - n c|^2 > n^2 closest^2
CentroidTooFar(sum, objNpts, nominalCenter, closest2) ==
  9 * Norm2(VSub(sum, VScale(objNpts, nominalCenter))) > objNpts * objNpts * closest2

\* an Affine3f that was never assigned
UninitializedTransformation ==
  [R |-> << <<0, 0, 0>>, <<0, 0, 0>>, <<0, 0, 0>> >>, t |-> Vec(0, 0, 0)]

\* lines 159-172: the N_YAW aligns; tries[i] is what align number i gave,
\* [err, transformation].  The first try with the lowest err wins.
RECURSIVE BestFrom(_, _, _)
BestFrom(tries, i, best) ==
  IF i > Len(tries) THEN best
  ELSE BestFrom(tries, i + 1,
         IF tries[i].err < best.bestErr
         THEN [bestErr |-> tries[i].err,
               bestTransformation |-> tries[i].transformation]
         ELSE best)

BestFit(tries) ==
  BestFrom(tries, 1, [bestErr |-> DBL_MAX,
                      bestTransformation |-> UninitializedTransformation])

\* the nearest among points at squared distances d[pos]: the positions it can
\* be at, and its squared distance
Nearest(d) ==
  [positions |-> {i \in DOMAIN d : \A j \in DOMAIN d : d[i] <= d[j]},
   nearestSqrDist |-> d[CHOOSE i \in DOMAIN d : \A j \in DOMAIN d : d[i] <= d[j]]]

\* line 182: kdtree.nearestKSearch(eig2pcl(p), 1, ...) on the working cloud
nearestSearch(markersConst, markers, p) ==
  Nearest([pos \in 1..Len(markers) |-> Dist2(markersConst, markers, pos, p)])

\* line 184: nearestSqrDist[0] > INIT_MAX_HAUSDORFF_DIST2
MarkerTooFar(nearestSqrDist) == nearestSqrDist > INIT_MAX_HAUSDORFF_DIST2

\* line 196
StoreFit(object, bestTransformation) ==
  [object EXCEPT !.m_lastTransformation = bestTransformation]

\* A faulty result: the fit of the last object decides.
LastFitDecides(allFitsGood, fitGood) == fitGood

\* lines 152 and 206: allFitsGood = allFitsGood && fitGood
AllFitsGoodAfter(allFitsGood, fitGood) == allFitsGood /\ fitGood

\* lines 174-206 for object iObj, bestTransformation being known: every
\* state the loop can be in after them.  near[i] is the answer of the
\* nearest-neighbour query for model marker i moved by bestTransformation.
TakeMarkers(st, iObj, entry, best, near) ==
  LET object == st.objects[iObj]
      objNpts == Len(near)
      fitGood == \A i \in 1..objNpts : ~MarkerTooFar(near[i].nearestSqrDist)
      Taken(left) == {st.markers[i] : i \in 1..Len(st.markers)}
                     \ {left[i] : i \in 1..Len(left)}
  IN IF fitGood
     THEN {[objects |-> [st.objects EXCEPT ![iObj] = StoreFit(object, best)],
            markers |-> left,
            allFitsGood |-> AllFitsGoodAfter(st.allFitsGood, TRUE),
            log |-> Append(st.log, [entry EXCEPT !.fitGood = TRUE,
                                                 !.bestTransformation = best,
                                                 !.taken = Taken(left)])] :
             left \in {EraseMarkers(st.markers, objTakePts) :
                         objTakePts \in {f \in [1..objNpts -> 1..Len(st.markers)] :
                                           \A i \in 1..objNpts : f[i] \in near[i].positions}}}
     ELSE {[st EXCEPT !.allFitsGood = AllFitsGoodAfter(@, FALSE),
                      !.log = Append(@, [entry EXCEPT !.bestTransformation = best])]}

\* The body of the loop of lines 127-207 for object iObj: every state the
\* loop can be in after it.  st = [objects, markers, allFitsGood, log].
InitObject(markersConst, closest2, st, iObj, tries) ==
  LET object == st.objects[iObj]
      objMarkers == m_markerConfigurations[object.m_markerConfigurationIdx]
      objNpts == Len(objMarkers)
      nominalCenter == center(object)
      entry(S) == [anchor |-> nominalCenter, closest2 |-> closest2,
                   before |-> st.markers, nearest |-> S,
                   tooFar |-> FALSE, fitGood |-> FALSE,
                   bestTransformation |-> UninitializedTransformation,
                   taken |-> {}]
      Failed(S) == [st EXCEPT !.allFitsGood = AllFitsGoodAfter(@, FALSE),
                              !.log = Append(@, [entry(S) EXCEPT !.tooFar = TRUE])]
  IN UNION {
       IF CentroidTooFar(SumPoints(markersConst, st.markers, S), objNpts,
                         nominalCenter, closest2)
       THEN {Failed(S)}
       ELSE UNION {
              TakeMarkers(st, iObj, entry(S), best,
                          [i \in 1..objNpts |->
                             nearestSearch(markersConst, st.markers,
                                           Apply(best, objMarkers[i]))])
              : best \in {BestFit(tries).bestTransformation}}
       : S \in nearestKSearch(markersConst, st.markers, nominalCenter, objNpts)}

\* A faulty loop: an object that is not accepted ends the attempt.
RejectedEndsAttempt(iObj) == nObjs + 1

\* lines 153 and 127: `continue`, or the end of the body, goes on with the
\* next object
AfterRejected(iObj) == iObj + 1

\* The loop of lines 127-207.
RECURSIVE InitLoop(_, _, _, _, _)
InitLoop(markersConst, closest2, st, iObj, sweeps) ==
  IF iObj > Len(st.objects) THEN {st}
  ELSE UNION {InitLoop(markersConst, closest2, s2,
                       IF s2.log[iObj].fitGood THEN iObj + 1
                       ELSE AfterRejected(iObj),
                       sweeps) :
                s2 \in InitObject(markersConst, closest2, st, iObj, sweeps[iObj])}

\* ObjectTracker::initialize(markersConst): every result it can have,
\* [objects, markers, allFitsGood, log]; sweeps[iObj] is what the aligns of
\* object iObj gave.
initialize(objects, markersConst, sweeps) ==
  InitLoop(markersConst, Closest2(objects),
           [objects |-> objects, markers |-> CopyCloud(markersConst),
            allFitsGood |-> TRUE, log |-> <<>>],
           1, sweeps)

\* ----------------------------------------------------- ObjectTracker::runICP
\* The warnings handed to logWarn.  `object` is not part of the message: it
\* records the loop iteration that emitted it (0: outside the loop).
InitFailedWarning ==
  [msg |-> "Object tracker initialization failed", lines |-> <<>>, object |-> 0]
NotConvergedWarning(iObj) ==
  [msg |-> "ICP did not converge!", lines |-> <<>>, object |-> iObj]
DynamicsWarning(iObj, lines) ==
  [msg |-> "Dynamic check failed", lines |-> lines, object |-> iObj]

\* lines 269-284: the pose ICP found, and its finite differences against
\* m_lastTransformation over dt
Measure(object, transformation, fitness, dt) ==
  LET now == getTranslationAndEulerAngles(transformation)
      held == getTranslationAndEulerAngles(object.m_lastTransformation)
  IN [vx |-> Quot(now.x - held.x, dt),
      vy |-> Quot(now.y - held.y, dt),
      vz |-> Quot(now.z - held.z, dt),
      wroll |-> Quot(now.roll - held.roll, dt),
      wpitch |-> Quot(now.pitch - held.pitch, dt),
      wyaw |-> Quot(now.yaw - held.yaw, dt),
      roll |-> Quot(now.roll, 1),
      pitch |-> Quot(now.pitch, 1),
      fitness |-> Quot(fitness, 1)]

\* A faulty gate: a velocity equal to its limit is let through.
DynamicsCheckInclusive(m, dynConf) ==
  /\ m.vx.den # 0 /\ Abs(m.vx.num) <= dynConf.maxXVelocity * Abs(m.vx.den)
  /\ FabsLess(m.vy, dynConf.maxYVelocity)
  /\ FabsLess(m.vz, dynConf.maxZVelocity)
  /\ FabsLess(m.wroll, dynConf.maxRollRate)
  /\ FabsLess(m.wpitch, dynConf.maxPitchRate)
  /\ FabsLess(m.wyaw, dynConf.maxYawRate)
  /\ FabsLess(m.roll, dynConf.maxRoll)
  /\ FabsLess(m.pitch, dynConf.maxPitch)
  /\ FabsLess(m.fitness, dynConf.maxFitnessScore)

\* lines 288-296: the dynamics gate (a fitness score is never negative)
DynamicsCheck(m, dynConf) ==
  /\ FabsLess(m.vx, dynConf.maxXVelocity)
  /\ FabsLess(m.vy, dynConf.maxYVelocity)
  /\ FabsLess(m.vz, dynConf.maxZVelocity)
  /\ FabsLess(m.wroll, dynConf.maxRollRate)
  /\ FabsLess(m.wpitch, dynConf.maxPitchRate)
  /\ FabsLess(m.wyaw, dynConf.maxYawRate)
  /\ FabsLess(m.roll, dynConf.maxRoll)
  /\ FabsLess(m.pitch, dynConf.maxPitch)
  /\ FabsLess(m.fitness, dynConf.maxFitnessScore)

\* one line of the warning: "<check>: <measured> >= <limit>"
Line(check, measured, limit) ==
  IF FabsGeq(measured, limit)
  THEN << [check |-> check, measured |-> measured, limit |-> limit] >>
  ELSE <<>>

\* lines 303-331: the lines of the "Dynamic check failed" warning
DynamicsLines(m, dynConf) ==
  Line("vx", m.vx, dynConf.maxXVelocity)
  \o Line("vy", m.vy, dynConf.maxYVelocity)
  \o Line("vz", m.vz, dynConf.maxZVelocity)
  \o Line("wroll", m.wroll, dynConf.maxRollRate)
  \o Line("wpitch", m.wpitch, dynConf.maxPitchRate)
  \o Line("wyaw", m.wyaw, dynConf.maxYawRate)
  \o Line("roll", m.roll, dynConf.maxRoll)
  \o Line("pitch", m.pitch, dynConf.maxPitch)
  \o Line("fitness", m.fitness, dynConf.maxFitnessScore)

\* A faulty commit: the stamp of the accepted frame is not stored.
CommitKeepsStamp(object, transformation, stamp, dt) ==
  [object EXCEPT
     !.m_velocity = [num |-> VSub(transformation.t, center(object)), den |-> dt],
     !.m_lastTransformation = transformation,
     !.m_lastTransformationValid = TRUE]

\* lines 298-301: the commit of an accepted pose
Commit(object, transformation, stamp, dt) ==
  [object EXCEPT
     !.m_velocity = [num |-> VSub(transformation.t, center(object)), den |-> dt],
     !.m_lastTransformation = transformation,
     !.m_lastValidTransform = stamp,
     !.m_lastTransformationValid = TRUE]

\* lines 243-260: what the loop hands to ICP for the object
AlignCall(object, iObj, dt, dynConf, out) ==
  [object |-> iObj,
   dt |-> dt,
   maxCorrespondenceDistance |-> dynConf.maxXVelocity * dt,
   source |-> object.m_markerConfigurationIdx,
   predictTransform |->
     [R |-> object.m_lastTransformation.R,
      t |-> object.m_lastTransformation.t,
      deltaPos |-> [num |-> VScale(dt, object.m_velocity.num),
                    den |-> object.m_velocity.den]],
   hasConverged |-> out.converged,
   finalTransformation |-> out.transformation,
   fitnessScore |-> out.fitness]

\* lines 261-333 for object iObj: out = [converged, transformation, fitness]
\* is what icp.align gave, m the measured quantities
GateObject(fr, iObj, stamp, out, object, dt, dynConf, m, call) ==
  IF ~out.converged
  THEN [objects |-> [fr.objects EXCEPT ![iObj] = object],
        warnings |-> Append(fr.warnings, NotConvergedWarning(iObj)),
        icp |-> Append(fr.icp, call)]
  ELSE IF DynamicsCheck(m, dynConf)
  THEN [objects |-> [fr.objects EXCEPT ![iObj] =
                       Commit(object, out.transformation, stamp, dt)],
        warnings |-> fr.warnings,
        icp |-> Append(fr.icp, call)]
  ELSE [objects |-> [fr.objects EXCEPT ![iObj] = object],
        warnings |-> Append(fr.warnings,
                       DynamicsWarning(iObj, DynamicsLines(m, dynConf))),
        icp |-> Append(fr.icp, call)]

\* lines 241-260 for object iObj, `object` being it with its valid flag reset
AlignObject(fr, iObj, stamp, out, object, dt, dynConf) ==
  GateObject(fr, iObj, stamp, out, object, dt, dynConf,
             Measure(object, out.transformation, out.fitness, dt),
             AlignCall(object, iObj, dt, dynConf, out))

\* The body of the loop of lines 240-334 for object iObj.
\* fr = [objects, warnings, icp].
FrameObject(fr, iObj, stamp, out) ==
  AlignObject(fr, iObj, stamp, out,
              [fr.objects[iObj] EXCEPT !.m_lastTransformationValid = FALSE],
              stamp - fr.objects[iObj].m_lastValidTransform,
              m_dynamicsConfigurations[fr.objects[iObj].m_dynamicsConfigurationIdx])

\* A faulty loop: an object whose ICP did not converge ends the frame.
NotConvergedBreaks(iObj) == nObjs + 1

\* line 265: `continue` goes on with the next object
AfterNotConverged(iObj) == iObj + 1

\* The loop of lines 240-334; outcome[iObj] is what icp.align gives for
\* object iObj.
RECURSIVE FrameLoop(_, _, _, _)
FrameLoop(fr, iObj, stamp, outcome) ==
  IF iObj > Len(fr.objects) THEN fr
  ELSE FrameLoop(FrameObject(fr, iObj, stamp, outcome[iObj]),
                 IF outcome[iObj].converged THEN iObj + 1
                 ELSE AfterNotConverged(iObj),
                 stamp, outcome)

\* A faulty flag: the result of the last attempt replaces the flag.
InitializedLastAttempt(was, allFitsGood) == allFitsGood

\* line 216: m_initialized = m_initialized || initialize(markers)
InitializedAfter(was, allFitsGood) == was \/ allFitsGood

\* A faulty call: initialize runs in every update.
InitializeAlways(was) == TRUE

\* line 216: || evaluates initialize(markers) only while m_initialized is false
RunsInitialize(was) == ~was

\* ---------------------------------------------- Assignment: the flow graph
\* Vertices are numbered as boost::add_vertex numbers them; the edges are
\* kept in the order they were added.  Assignment::Assignment adds the source
\* and the sink.
m_sourceVertex == 1
m_sinkVertex == 2
AssignmentGraph == [vertices |-> 2, edges |-> <<>>]

\* ------------------------------------------------------------ construction
\* `last` before any call.  stamp, cloud: the arguments; before: m_objects,
\* m_initialized and m_init_attempts when the call began; ranInitialize,
\* allFitsGood, initLog, left: whether initialize ran, what it returned, what
\* it did for each object and the working cloud it ended with; frameStart:
\* m_objects when the loop of line 240 began; icp: the aligns of that loop;
\* warnings: the messages handed to logWarn; delivered: those the callback got;
\* accepted: for each object the stamp, pose and velocity of the last frame
\* that accepted it (before.accepted: the same when the call began).
NoCall ==
  [stamp |-> 0, cloud |-> <<>>,
   before |-> [objects |-> <<>>, initialized |-> FALSE, attempts |-> 0,
               accepted |-> <<>>],
   accepted |-> <<>>,
   ranInitialize |-> FALSE, allFitsGood |-> FALSE, initLog |-> <<>>, left |-> <<>>,
   frameStart |-> <<>>, icp |-> <<>>, warnings |-> <<>>, delivered |-> <<>>]

\* ObjectTracker::ObjectTracker(dynamicsConfigurations, markerConfigurations,
\* objects); no logger or player has done anything yet
Constructed(objects) ==
  /\ m_objects = objects
  /\ m_initialized = FALSE
  /\ m_init_attempts = 0
  /\ m_logWarn = FALSE
  /\ pointCloud = <<>>
  /\ calls = 0
  /\ last = NoCall
  /\ file = <<>>
  /\ logged = <<>>
  /\ timestamps = <<>>
  /\ clouds = <<>>
  /\ played = [done |-> FALSE, logged |-> <<>>]
  /\ m_agents = <<>>
  /\ m_tasks = <<>>
  /\ m_groups = <<>>
  /\ m_graph = AssignmentGraph
  /\ solution = {}
  /\ costsSet = {}

\* the tracker of two objects
Init ==
  \E garbage \in UninitializedVelocities :
    Constructed([i \in DOMAIN InitialTransformations |->
                   Object(i, i, InitialTransformations[i], garbage)])

\* ObjectTracker::logWarn: the messages that reach the callback
logWarn(installed, msgs) == IF installed THEN msgs ELSE <<>>

\* ObjectTracker::setLogWarningCallback: the caller installs its callback
\* before the first frame, or never
setLogWarningCallback ==
  /\ calls = 0
  /\ ~m_logWarn
  /\ m_logWarn' = TRUE
  /\ UNCHANGED <<m_objects, m_initialized, m_init_attempts, pointCloud, calls, last>>
  /\ UNCHANGED logVars
  /\ UNCHANGED assignmentVars

\* the record of an accepted frame: lines 298-301 set these together
NeverAccepted ==
  [ever |-> FALSE, stamp |-> 0, transformation |-> UninitializedTransformation,
   velocity |-> [num |-> Vec(0, 0, 0), den |-> 0]]
AcceptedNow(object) ==
  [ever |-> TRUE, stamp |-> object.m_lastValidTransform,
   transformation |-> object.m_lastTransformation,
   velocity |-> object.m_velocity]
AcceptedAt(accepted, i) ==
  IF i \in DOMAIN accepted THEN accepted[i] ELSE NeverAccepted

\* ObjectTracker::runICP(stamp, markers) after line 216, r being what
\* initialize did (NotRun when it was not evaluated)
NotRun(markersConst) ==
  [objects |-> m_objects, markers |-> CopyCloud(markersConst),
   allFitsGood |-> FALSE, log |-> <<>>]

Returns(stamp, markersConst, ran, r, initialized, fr) ==
  /\ m_initialized' = initialized
  /\ m_init_attempts' = IF ran THEN m_init_attempts + 1 ELSE m_init_attempts
  /\ m_objects' = fr.objects
  /\ pointCloud' = IF ran THEN CallerCloudAfter(markersConst, r.markers)
                   ELSE markersConst
  /\ calls' = calls + 1
  /\ last' = [stamp |-> stamp, cloud |-> markersConst,
              before |-> [objects |-> m_objects, initialized |-> m_initialized,
                          attempts |-> m_init_attempts,
                          accepted |-> last.accepted],
              accepted |-> [i \in 1..Len(fr.objects) |->
                              IF fr.objects[i].m_lastTransformationValid
                              THEN AcceptedNow(fr.objects[i])
                              ELSE AcceptedAt(last.accepted, i)],
              ranInitialize |-> ran, allFitsGood |-> r.allFitsGood,
              initLog |-> r.log, left |-> r.markers,
              frameStart |-> r.objects, icp |-> fr.icp,
              warnings |-> fr.warnings,
              delivered |-> logWarn(m_logWarn, fr.warnings)]
  /\ UNCHANGED m_logWarn
  /\ UNCHANGED logVars
  /\ UNCHANGED assignmentVars

\* lines 217-334: the warning of a failed initialization, then the frame loop
Frame(stamp, markersConst, ran, r, initialized, outcome) ==
  Returns(stamp, markersConst, ran, r, initialized,
          FrameLoop([objects |-> r.objects,
                     warnings |-> IF ~initialized THEN <<InitFailedWarning>> ELSE <<>>,
                     icp |-> <<>>],
                    1, stamp, outcome))

runICP(stamp, markersConst, ran, r, outcome) ==
  Frame(stamp, markersConst, ran, r,
        InitializedAfter(m_initialized, r.allFitsGood), outcome)

\* what initialize can do on a cloud, over the yaw sweeps of sweeps
InitResults(cloud, sweeps) ==
  UNION {initialize(m_objects, cloud, sweep) : sweep \in sweeps}

\* ObjectTracker::update(time, pointCloud), with the stamp and cloud drawn
\* from stamps and pointClouds, the aligns of initialize from sweeps and the aligns
\* of the frame loop from outcomes.  The caller's clock advances from one
\* call to the next, and initialize is handed a cloud with at least as many
\* points as the objects have markers.
updateWith(stamps, pointClouds, sweeps, outcomes) ==
  \E cloud \in pointClouds :
    IF RunsInitialize(m_initialized)
    THEN /\ Len(cloud) >= SumNpts
         /\ \E r \in InitResults(cloud, sweeps) :
              \E stamp \in stamps, outcome \in outcomes :
                 /\ calls = 0 \/ stamp > last.stamp
                 /\ runICP(stamp, cloud, TRUE, r, outcome)
    ELSE \E stamp \in stamps, outcome \in outcomes :
            /\ calls = 0 \/ stamp > last.stamp
            /\ runICP(stamp, cloud, FALSE, NotRun(cloud), outcome)

\* ------------------------------------------------------------- the inputs
Pose(x, y, z) == getTransformation(x, y, z, 0, 0, 0)

\* the clouds handed to update: both objects in place (the second one unit
\* off, and a stray point), the second object away, the first object away,
\* and a marker of the first object hidden
CloudGood == <<Pt(13, 2), Pt(-2, 0), Pt(40, 0), Pt(13, -2), Pt(2, 0)>>
CloudSecondAway == <<Pt(-2, 0), Pt(2, 0), Pt(20, -2), Pt(20, 2)>>
CloudFirstAway == <<Pt(12, -2), Pt(12, 2), Pt(30, 0), Pt(34, 0)>>
CloudOccluded == <<Pt(-2, 0), Pt(12, -2), Pt(12, 2)>>
Clouds == {CloudGood, CloudSecondAway, CloudFirstAway, CloudOccluded}

Stamps == 0..MaxStamp

\* a yaw sweep whose first half of the tries give a and second half c
Sweep(a, c) == [n \in 1..N_YAW |-> IF 2 * n <= N_YAW THEN a ELSE c]
Fit(err, transformation) == [err |-> err, transformation |-> transformation]

\* the yaw sweeps of initialize, for each object
SweepsOf ==
  << {Sweep(Fit(0, Pose(0, 0, 0)), Fit(0, Pose(1, 0, 0))),
      Sweep(Fit(1, Pose(3, 0, 0)), Fit(0, Pose(1, 0, 0))),
      Sweep(Fit(1, Pose(3, 0, 0)), Fit(2, Pose(0, 0, 0)))},
     {Sweep(Fit(1, Pose(13, 0, 0)), Fit(0, Pose(12, 0, 0)))} >>
Sweeps == {sweep \in [Objs -> UNION {SweepsOf[i] : i \in Objs}] :
             \A i \in Objs : sweep[i] \in SweepsOf[i]}

NotConverged(i) ==
  [converged |-> FALSE, transformation |-> InitialTransformations[i], fitness |-> 0]
Converged(transformation, fitness) ==
  [converged |-> TRUE, transformation |-> transformation, fitness |-> fitness]

\* what the aligns of the frame loop give, for each object
OutcomesOf ==
  << {NotConverged(1), Converged(Pose(0, 0, 0), 0)},
     {Converged(Pose(12, 0, 0), 0)} >>
Outcomes == {outcome \in [Objs -> UNION {OutcomesOf[i] : i \in Objs}] :
               \A i \in Objs : outcome[i] \in OutcomesOf[i]}

update == updateWith(Stamps, Clouds, Sweeps, Outcomes)

Next == update \/ setLogWarningCallback

\* The tracker fed frames that exercise initialize.
Spec == Init /\ [][Next]_vars

\* The frames that exercise the dynamics gate: the first frame initializes
\* both objects at their nominal poses, and in every frame one object gets a
\* pose that differs from its nominal pose in one coordinate at most.
TrackingClouds == {CloudGood, CloudOccluded}
TrackingSweeps ==
  {<<Sweep(Fit(0, Pose(0, 0, 0)), Fit(0, Pose(1, 0, 0))),
     Sweep(Fit(1, Pose(13, 0, 0)), Fit(0, Pose(12, 0, 0)))>>}
Still(i) == Converged(InitialTransformations[i], 0)
TrackingOutcomes ==
  {<<out, Still(2)>> :
     out \in {NotConverged(1), Still(1),
              Converged(Pose(0, 0, 0), 1),
              Converged(Pose(1, 0, 0), 0),
              Converged(Pose(0, 1, 0), 0),
              Converged(Pose(0, 0, 1), 0),
              Converged(getTransformation(0, 0, 0, 1, 0, 0), 0),
              Converged(getTransformation(0, 0, 0, 0, 1, 0), 0),
              Converged(getTransformation(0, 0, 0, 0, 0, 1), 0)}}
  \cup
  {<<out, Converged(getTransformation(12, 0, 0, 1, 0, 0), 0)>> :
     out \in {NotConverged(1), Still(1)}}
  \cup
  {<<out, Converged(getTransformation(12, 0, 0, 0, 1, 0), 0)>> :
     out \in {Still(1)}}
  \cup
  {<<out, NotConverged(2)>> :
     out \in {NotConverged(1), Still(1)}}

updateTracking ==
  updateWith(Stamps, TrackingClouds, TrackingSweeps, TrackingOutcomes)

NextTracking == updateTracking \/ setLogWarningCallback

SpecTracking == Init /\ [][NextTracking]_vars

\* The tracker of a single object at the identity, fed its marker
\* configuration at stamp 0 and then the configuration moved by 0.01 m
\* (2 units) along x at later stamps.
InitSingle ==
  \E garbage \in UninitializedVelocities :
    Constructed(<<Object(3, 3, Pose(0, 0, 0), garbage)>>)

CloudAtOrigin == m_markerConfigurations[3]
CloudMoved == [i \in 1..Len(CloudAtOrigin) |-> VAdd(CloudAtOrigin[i], Vec(2, 0, 0))]

SweepsAtOrigin ==
  {<<Sweep(Fit(0, Pose(0, 0, 0)), Fit(0, Pose(1, 0, 0)))>>,
   <<Sweep(Fit(1, Pose(3, 0, 0)), Fit(2, Pose(0, 0, 0)))>>}
SweepsMoved ==
  {<<Sweep(Fit(0, Pose(2, 0, 0)), Fit(0, Pose(1, 0, 0)))>>}
OutcomesAtOrigin ==
  {<<NotConverged(1)>>, <<Converged(Pose(0, 0, 0), 0)>>,
   <<Converged(Pose(1, 0, 0), 0)>>}
OutcomesMoved ==
  {<<NotConverged(1)>>, <<Converged(Pose(2, 0, 0), 0)>>,
   <<Converged(Pose(2, 0, 0), 1)>>, <<Converged(Pose(2, 1, 0), 0)>>}

updateAtOrigin ==
  /\ calls = 0
  /\ updateWith({0}, {CloudAtOrigin}, SweepsAtOrigin, OutcomesAtOrigin)

updateMoved ==
  /\ calls > 0
  /\ updateWith(1..MaxStamp, {CloudMoved}, SweepsMoved, OutcomesMoved)

NextSingle == updateAtOrigin \/ updateMoved \/ setLogWarningCallback

SpecSingle == InitSingle /\ [][NextSingle]_vars

\* ------------------------------------------------------------ cloudlog.hpp
\* A uint32_t is an integer, a float the four bytes of its object
\* representation, a point [x, y, z] of floats, a file a sequence of bytes.
\* The integers of the model are below 2^31.
ByteOf(v, k) == (v \div (256 ^ k)) % 256

\* PointCloudLogger::write<uint32_t>: the bytes of t, lowest first
writeU32(t) == <<ByteOf(t, 0), ByteOf(t, 1), ByteOf(t, 2), ByteOf(t, 3)>>

\* PointCloudLogger::write<float>: the bytes of t
writeFloat(t) == t

\* lines 66-71: the coordinates of the points from position i on
RECURSIVE writePoints(_, _)
writePoints(cloud, i) ==
  IF i > Len(cloud) THEN <<>>
  ELSE writeFloat(cloud[i].x) \o writeFloat(cloud[i].y) \o writeFloat(cloud[i].z)
       \o writePoints(cloud, i + 1)

\* PointCloudLogger::log(millis, cloud): the bytes it appends to the file
logRecord(millis, cloud) ==
  writeU32(millis) \o writeU32(Len(cloud)) \o writePoints(cloud, 1)

\* An ifstream over bytes: pos bytes were read, ok is its state.  A read
\* past the end fails the stream and leaves the value read uninitialized.
UninitializedU32 == {0, 1}
UninitializedFloats == {<<0, 0, 0, 0>>, <<255, 255, 255, 255>>}
CanRead(s, bytes) == s.ok /\ s.pos + 4 <= Len(bytes)
AfterRead(s, bytes) ==
  IF CanRead(s, bytes) THEN [s EXCEPT !.pos = s.pos + 4]
  ELSE [s EXCEPT !.ok = FALSE]

\* PointCloudPlayer::read<uint32_t>: the values it can return
readU32(s, bytes) ==
  IF CanRead(s, bytes)
  THEN {bytes[s.pos + 1] + 256 * bytes[s.pos + 2] + 65536 * bytes[s.pos + 3]
          + 16777216 * bytes[s.pos + 4]}
  ELSE UninitializedU32

\* PointCloudPlayer::read<float>
readFloat(s, bytes) ==
  IF CanRead(s, bytes) THEN {SubSeq(bytes, s.pos + 1, s.pos + 4)}
  ELSE UninitializedFloats

\* lines 115-118: one point, and the stream after it
readPoint(s, bytes) ==
  LET sy == AfterRead(s, bytes)
      sz == AfterRead(sy, bytes)
  IN {[point |-> [x |-> x, y |-> y, z |-> z], s |-> AfterRead(sz, bytes)] :
        x \in readFloat(s, bytes), y \in readFloat(sy, bytes),
        z \in readFloat(sz, bytes)}

\* lines 114-119: the points i..size of the cloud; every [cloud, s] the
\* loop can end with
RECURSIVE readPoints(_, _, _, _, _)
readPoints(s, bytes, cloud, i, size) ==
  IF i > size THEN {[cloud |-> cloud, s |-> s]}
  ELSE UNION {readPoints(r.s, bytes, Append(cloud, r.point), i + 1, size) :
                r \in readPoint(s, bytes)}

\* A faulty loop: a failed read of the timestamp does not end it.
BreakSkipped(ok) == FALSE

\* lines 106-108: if (!s) break
BreakAtEof(ok) == ~ok

\* lines 103-120: the loop of load; acc = [timestamps, clouds] so far
RECURSIVE loadLoop(_, _, _)
loadLoop(s, bytes, acc) ==
  IF ~s.ok THEN {acc}
  ELSE IF BreakAtEof(AfterRead(s, bytes).ok) THEN {acc}
  ELSE UNION {
         UNION {
           UNION {loadLoop(r.s, bytes,
                           [timestamps |-> Append(acc.timestamps, millis),
                            clouds |-> Append(acc.clouds, r.cloud)]) :
                    r \in readPoints(AfterRead(AfterRead(s, bytes), bytes),
                                     bytes, <<>>, 1, size)}
           : size \in readU32(AfterRead(s, bytes), bytes)}
         : millis \in readU32(s, bytes)}

\* PointCloudPlayer::load on a file holding bytes, for a player whose
\* members are timestamps0 and clouds0
loadFile(bytes, timestamps0, clouds0) ==
  loadLoop([pos |-> 0, ok |-> TRUE], bytes,
           [timestamps |-> timestamps0, clouds |-> clouds0])

\* PointCloudLogger::log(millis, cloud)
logWith(stamps, logClouds) ==
  /\ Len(logged) < MaxFrames
  /\ \E millis \in stamps, cloud \in logClouds :
       /\ file' = file \o logRecord(millis, cloud)
       /\ logged' = Append(logged, [millis |-> millis, cloud |-> cloud])
  /\ UNCHANGED <<timestamps, clouds, played>>
  /\ UNCHANGED trackerVars
  /\ UNCHANGED assignmentVars

\* A PointCloudPlayer is constructed and loads the file the logger wrote.
load ==
  /\ \E r \in loadFile(file, <<>>, <<>>) :
       /\ timestamps' = r.timestamps
       /\ clouds' = r.clouds
  /\ played' = [done |-> TRUE, logged |-> logged]
  /\ UNCHANGED <<file, logged>>
  /\ UNCHANGED trackerVars
  /\ UNCHANGED assignmentVars

\* the frames logged: floats 0, 1, -2.5, a NaN and 1e-3, and timestamps whose
\* four bytes differ
Float0 == <<0, 0, 0, 0>>
Float1 == <<0, 0, 128, 63>>
FloatNeg == <<0, 0, 32, 192>>
FloatNaN == <<1, 0, 192, 127>>
FloatSmall == <<111, 18, 131, 58>>
LogPoint(x, y, z) == [x |-> x, y |-> y, z |-> z]
LogCloud4 ==
  <<LogPoint(Float0, Float1, FloatNeg), LogPoint(Float1, Float1, Float0),
    LogPoint(FloatNaN, Float0, FloatSmall), LogPoint(Float0, Float1, FloatNeg)>>
LogCloud7 == LogCloud4 \o
  <<LogPoint(FloatSmall, FloatNeg, Float1), LogPoint(Float0, Float0, Float0),
    LogPoint(FloatNeg, FloatNaN, Float1)>>
LogClouds == {<<>>, LogCloud4, LogCloud7}
LogStamps == {0, 10, 16909060}

log == logWith(LogStamps, LogClouds)

NextLog == log \/ load

\* The logger writing a file and players loading it.
SpecLog == Init /\ [][NextLog]_vars

\* ------------------------------------------- assignment_group_constraint.hpp
\* struct Edge
Edge(from, to, cost, capacity, reverseEdge, isReverseEdge) ==
  [from |-> from, to |-> to, cost |-> cost, capacity |-> capacity,
   residualCapacity |-> 0, reverseEdge |-> reverseEdge,
   isReverseEdge |-> isReverseEdge]

\* boost::edge(from, to, graph): the position of the edge, 0 if there is none
edge(graph, from, to) ==
  LET found == {e \in 1..Len(graph.edges) :
                  graph.edges[e].from = from /\ graph.edges[e].to = to}
  IN IF found = {} THEN 0 ELSE CHOOSE e \in found : \A f \in found : e <= f

\* boost::add_vertex
add_vertex(graph) == [graph EXCEPT !.vertices = @ + 1]

\* boost::out_edges(v, graph), in the order they were added
out_edges(graph, v) ==
  LET Out(e) == graph.edges[e].from = v
  IN SelectSeq([e \in 1..Len(graph.edges) |-> e], Out)

\* Assignment::addOrUpdateEdge
addOrUpdateEdge(graph, from, to, cost, capacity) ==
  LET e == edge(graph, from, to)
      n == Len(graph.edges)
  IN IF e # 0
     THEN [graph EXCEPT
             !.edges[e].cost = cost,
             !.edges[graph.edges[e].reverseEdge].cost = -cost,
             !.edges[e].capacity = capacity]
     ELSE [graph EXCEPT
             !.edges = @ \o <<Edge(from, to, cost, capacity, n + 2, FALSE),
                              Edge(to, from, -cost, 0, n + 1, TRUE)>>]

\* lines 59-69, 71-81, 92-100: the vertex of a key, created if it has none;
\* [map, graph, vertex, isNew]
Lazily(map, graph, k) ==
  IF k \in DOMAIN map
  THEN [map |-> map, graph |-> graph, vertex |-> map[k], isNew |-> FALSE]
  ELSE [map |-> [x \in DOMAIN map \cup {k} |->
                  IF x = k THEN graph.vertices + 1 ELSE map[x]],
        graph |-> add_vertex(graph),
        vertex |-> graph.vertices + 1, isNew |-> TRUE]

\* lines 91-103 for the tasks of the group not in `done`, smallest first;
\* st = [tasks, graph]
RECURSIVE TaskLoop(_, _, _, _)
TaskLoop(st, group, done, groupVertex) ==
  IF group \ done = {} THEN st
  ELSE LET task == CHOOSE t \in group \ done : \A u \in group \ done : t <= u
           l == Lazily(st.tasks, st.graph, task)
           withSink == IF l.isNew
                       THEN addOrUpdateEdge(l.graph, l.vertex, m_sinkVertex, 0, 1)
                       ELSE l.graph
       IN TaskLoop([tasks |-> l.map,
                    graph |-> addOrUpdateEdge(withSink, groupVertex, l.vertex, 0, 1)],
                   group, done \cup {task}, groupVertex)

\* Assignment::setCost(agent, group, cost)
setCostWith(agents, groups, costs) ==
  /\ Cardinality(costsSet) < MaxSetCost
  /\ \E agent \in agents, group \in groups, cost \in costs :
       LET a == Lazily(m_agents, m_graph, agent)
           g == Lazily(m_groups, a.graph, group)
           st == TaskLoop([tasks |-> m_tasks,
                           graph |-> addOrUpdateEdge(g.graph, a.vertex, g.vertex,
                                                     cost, Cardinality(group))],
                          group, {}, g.vertex)
       IN /\ m_agents' = a.map
          /\ m_groups' = g.map
          /\ m_tasks' = st.tasks
          /\ m_graph' = st.graph
          /\ costsSet' = costsSet \cup {<<agent, group>>}
  /\ UNCHANGED solution
  /\ UNCHANGED <<trackerVars, logVars>>

\* lines 112-129: the largest capacity of an edge from an agent to a group
MaxCapacity(agents, groups, graph) ==
  LET caps == {graph.edges[edge(graph, agents[a], groups[g])].capacity :
                 <<a, g>> \in {q \in (DOMAIN agents) \X (DOMAIN groups) :
                                 edge(graph, agents[q[1]], groups[q[2]]) # 0}}
             \cup {0}
  IN CHOOSE m \in caps : \A c \in caps : c <= m

\* lines 132-134 for the agents not in `done`, smallest first
RECURSIVE SourceEdges(_, _, _, _)
SourceEdges(graph, agents, done, max_capacity) ==
  IF (DOMAIN agents) \ done = {} THEN graph
  ELSE LET agent == CHOOSE a \in (DOMAIN agents) \ done :
                      \A b \in (DOMAIN agents) \ done : a <= b
       IN SourceEdges(addOrUpdateEdge(graph, m_sourceVertex, agents[agent],
                                      0, max_capacity),
                      agents, done \cup {agent}, max_capacity)

\* boost::successive_shortest_path_nonnegative_weights is an external
\* library: it leaves in residualCapacity the residuals of a maximum flow of
\* minimum cost from the source to the sink.  An integral flow is a set of
\* paths source -> .. -> sink along edges that are not reverse edges.
ForwardFrom(graph, v) ==
  {e \in 1..Len(graph.edges) :
     graph.edges[e].from = v /\ ~graph.edges[e].isReverseEdge}
Paths(graph) ==
  UNION {UNION {UNION {{<<e1, e2, e3, e4>> :
                          e4 \in {e \in ForwardFrom(graph, graph.edges[e3].to) :
                                    graph.edges[e].to = m_sinkVertex}} :
                       e3 \in ForwardFrom(graph, graph.edges[e2].to)} :
                e2 \in ForwardFrom(graph, graph.edges[e1].to)} :
         e1 \in ForwardFrom(graph, m_sourceVertex)}
FlowOn(paths, e) == Cardinality({p \in paths : \E k \in 1..4 : p[k] = e})
Feasible(graph, paths) ==
  \A e \in 1..Len(graph.edges) :
    ~graph.edges[e].isReverseEdge => FlowOn(paths, e) <= graph.edges[e].capacity
RECURSIVE FlowCost(_, _, _)
FlowCost(graph, paths, e) ==
  IF e = 0 THEN 0
  ELSE FlowCost(graph, paths, e - 1)
       + (IF graph.edges[e].isReverseEdge THEN 0
          ELSE FlowOn(paths, e) * graph.edges[e].cost)
Flows(graph) == {f \in SUBSET Paths(graph) : Feasible(graph, f)}
MaxFlows(flows, sizes) == {f \in flows : \A n \in sizes : n <= Cardinality(f)}
MinCost(graph, flows, costs) ==
  {f \in flows : \A c \in costs : FlowCost(graph, f, Len(graph.edges)) <= c}
Residuals(graph, paths) ==
  [graph EXCEPT !.edges =
     [e \in 1..Len(graph.edges) |->
        [graph.edges[e] EXCEPT !.residualCapacity =
           IF graph.edges[e].isReverseEdge
           THEN FlowOn(paths, graph.edges[e].reverseEdge)
           ELSE graph.edges[e].capacity - FlowOn(paths, e)]]]

\* A faulty test: an edge that carries any flow counts.
CarriesFlow(e) == e.residualCapacity < e.capacity

\* line 161: residualCapacity == 0
Saturated(e) == e.residualCapacity = 0

\* lines 163-176: the group of a vertex
GroupOf(groups, groupVertex) == {g \in DOMAIN groups : groups[g] = groupVertex}
AgentOf(agents, agentVertex) == CHOOSE a \in DOMAIN agents : agents[a] = agentVertex

\* solution[agent] = group
Assign(sol, agent, group) == {p \in sol : p[1] # agent} \cup {<<agent, group>>}

\* lines 156-188: the out edges of an agent from position k on, up to the
\* first edge to a group that is saturated
RECURSIVE AgentEdges(_, _, _, _)
AgentEdges(graph, sol, es2, k) ==
  IF k > Len(es2) THEN sol
  ELSE IF ~graph.edges[es2[k]].isReverseEdge /\ Saturated(graph.edges[es2[k]])
  THEN LET agent == AgentOf(m_agents, graph.edges[es2[k]].from)
           found == GroupOf(m_groups, graph.edges[es2[k]].to)
       IN IF found = {} THEN sol
          ELSE Assign(sol, agent, CHOOSE g \in found : TRUE)
  ELSE AgentEdges(graph, sol, es2, k + 1)

\* lines 151-189: the out edges of the source from position k on
RECURSIVE SolutionLoop(_, _, _, _)
SolutionLoop(graph, sol, es, k) ==
  IF k > Len(es) THEN sol
  ELSE SolutionLoop(graph,
                    AgentEdges(graph, sol,
                               out_edges(graph, graph.edges[es[k]].to), 1),
                    es, k + 1)

\* Assignment::solve(solution)
solve ==
  /\ \E withSource \in {SourceEdges(m_graph, m_agents, {},
                                    MaxCapacity(m_agents, m_groups, m_graph))} :
       \E flows \in {Flows(withSource)} :
         \E largest \in {MaxFlows(flows, {Cardinality(f) : f \in flows})} :
           \E flow \in MinCost(withSource, largest,
                               {FlowCost(withSource, f, Len(withSource.edges)) :
                                  f \in largest}) :
             \E graph \in {Residuals(withSource, flow)} :
               /\ m_graph' = graph
               /\ solution' = SolutionLoop(graph, {},
                                           out_edges(graph, m_sourceVertex), 1)
  /\ UNCHANGED <<m_agents, m_tasks, m_groups, costsSet>>
  /\ UNCHANGED <<trackerVars, logVars>>

\* the calls of setCost: two agents, groups of one or two of three tasks
\* that overlap, costs 0 and 1
AssignmentAgents == {1, 2}
AssignmentGroups == {{1}, {1, 2}, {2, 3}, {3}}
AssignmentCosts == {0, 1}

setCost == setCostWith(AssignmentAgents, AssignmentGroups, AssignmentCosts)

NextAssignment == setCost \/ solve

\* Assignment::Assignment, beside a tracker of no objects
InitAssignment == Constructed(<<>>)

\* An Assignment whose costs are set and that is solved.
SpecAssignment == InitAssignment /\ [][NextAssignment]_vars

\* ------------------------------------------------------------ properties
\* What the last update call is compared against: the objects when the call
\* began, and when its frame loop began.
Before(i) == last.before.objects[i]
FrameStart(i) == last.frameStart[i]

\* the warnings of the last call emitted for object i (0: by runICP itself)
WarningsFor(i) == {k \in 1..Len(last.warnings) : last.warnings[k].object = i}
InitFailedWarnings ==
  {k \in 1..Len(last.warnings) : last.warnings[k] = InitFailedWarning}

\* the callback, if installed, got every warning in order
Delivered ==
  last.delivered = IF m_logWarn THEN last.warnings ELSE <<>>

SamePoseVelocityTime(a, b) ==
  /\ a.m_lastTransformation = b.m_lastTransformation
  /\ a.m_velocity = b.m_velocity
  /\ a.m_lastValidTransform = b.m_lastValidTransform

\* C1: the initialized flag starts false, becomes true in the first update
\* call whose initialization attempt succeeds, and no update call takes it
\* from true back to false.
C1_InitializedSticky ==
  /\ calls = 0 => ~m_initialized
  /\ calls > 0 /\ last.before.initialized => m_initialized
  /\ calls > 0 /\ ~last.before.initialized =>
       (m_initialized <=> last.ranInitialize /\ last.allFitsGood)

\* an update call made after initialization succeeded, on a cloud with too
\* few points to label anything
C1_Witness ==
  /\ calls >= 2
  /\ last.before.initialized
  /\ m_initialized
  /\ Len(last.cloud) < SumNpts

\* C2 (as the specification states it): an update call that leaves the
\* tracker uninitialized emits the initialization-failed warning and does not
\* run the frame loop: no align, no other warning, and every object's valid
\* flag, velocity and last valid stamp are as before the call.
C2_UninitializedCallSkipsFrame ==
  calls > 0 /\ ~m_initialized =>
    /\ Cardinality(InitFailedWarnings) = 1
    /\ Len(last.warnings) = 1
    /\ last.icp = <<>>
    /\ \A i \in Objs :
         /\ m_objects[i].m_lastTransformationValid
              = Before(i).m_lastTransformationValid
         /\ m_objects[i].m_velocity = Before(i).m_velocity
         /\ m_objects[i].m_lastValidTransform = Before(i).m_lastValidTransform

\* C3: after an update call with stamp t, an object whose valid flag is true
\* has last valid stamp t, and an object whose valid flag is false has the
\* last valid stamp it had before the call.
C3_ValidStamp ==
  calls > 0 =>
    \A i \in Objs :
      IF m_objects[i].m_lastTransformationValid
      THEN m_objects[i].m_lastValidTransform = last.stamp
      ELSE m_objects[i].m_lastValidTransform = Before(i).m_lastValidTransform

\* a call that accepted one object and not the other, which had been accepted
\* in an earlier call
C3_Witness ==
  /\ calls >= 2
  /\ \E i, j \in Objs :
       /\ m_objects[i].m_lastTransformationValid
       /\ m_objects[i].m_lastValidTransform = last.stamp
       /\ Before(i).m_lastValidTransform < last.stamp
       /\ ~m_objects[j].m_lastTransformationValid
       /\ Before(j).m_lastTransformationValid
       /\ m_objects[j].m_lastValidTransform < last.stamp

\* The nine checks of the gate for the align of object i in the last call,
\* stated on the pose ICP gave, the pose the object had when the frame began
\* and the time since its last valid stamp.  A quotient by a zero dt is
\* infinite or not a number, and below no limit.
Elapsed(i) == last.stamp - FrameStart(i).m_lastValidTransform
Found(i) == getTranslationAndEulerAngles(last.icp[i].finalTransformation)
Held(i) == getTranslationAndEulerAngles(FrameStart(i).m_lastTransformation)
Limits(i) == m_dynamicsConfigurations[FrameStart(i).m_dynamicsConfigurationIdx]
RateBelow(delta, dt, limit) == dt # 0 /\ Abs(delta) < limit * Abs(dt)
ChecksPassed(i) ==
  {c \in {"vx", "vy", "vz", "wroll", "wpitch", "wyaw", "roll", "pitch", "fitness"} :
     CASE c = "vx" -> RateBelow(Found(i).x - Held(i).x, Elapsed(i), Limits(i).maxXVelocity)
       [] c = "vy" -> RateBelow(Found(i).y - Held(i).y, Elapsed(i), Limits(i).maxYVelocity)
       [] c = "vz" -> RateBelow(Found(i).z - Held(i).z, Elapsed(i), Limits(i).maxZVelocity)
       [] c = "wroll" -> RateBelow(Found(i).roll - Held(i).roll, Elapsed(i), Limits(i).maxRollRate)
       [] c = "wpitch" -> RateBelow(Found(i).pitch - Held(i).pitch, Elapsed(i), Limits(i).maxPitchRate)
       [] c = "wyaw" -> RateBelow(Found(i).yaw - Held(i).yaw, Elapsed(i), Limits(i).maxYawRate)
       [] c = "roll" -> Abs(Found(i).roll) < Limits(i).maxRoll
       [] c = "pitch" -> Abs(Found(i).pitch) < Limits(i).maxPitch
       [] c = "fitness" -> last.icp[i].fitnessScore < Limits(i).maxFitnessScore}
ChecksFailed(i) ==
  {"vx", "vy", "vz", "wroll", "wpitch", "wyaw", "roll", "pitch", "fitness"}
    \ ChecksPassed(i)

\* C4: at the end of a frame an object's valid flag is true if and only if,
\* in that frame, ICP converged for it and all nine checks hold strictly; a
\* value equal to its limit is rejected, and the flag of an earlier frame does
\* not survive a frame the object fails.
C4_ValidIffConvergedAndNineStrict ==
  calls > 0 =>
    /\ Len(last.icp) = nObjs
    /\ \A i \in Objs :
         m_objects[i].m_lastTransformationValid
           <=> (last.icp[i].hasConverged /\ ChecksFailed(i) = {})

\* an object accepted in the frame before, now found moved along x at exactly
\* maxXVelocity with nothing else wrong, and not valid
C4_Witness ==
  /\ calls >= 2
  /\ \E i \in Objs :
       /\ Before(i).m_lastTransformationValid
       /\ last.icp[i].hasConverged
       /\ Elapsed(i) > 0
       /\ Abs(Found(i).x - Held(i).x) = Limits(i).maxXVelocity * Elapsed(i)
       /\ ChecksFailed(i) = {"vx"}
       /\ ~m_objects[i].m_lastTransformationValid

\* the markers initialize took for each object in the last call
Taken(i) == last.initLog[i].taken
AllTaken == UNION {Taken(i) : i \in Objs}

\* C5: after a successful initialize on a cloud with at least as many points
\* as the objects have markers, the markers removed from the working cloud are
\* distinct points of the input cloud, none is taken by two objects, and
\* there are as many of them as the objects have markers.
C5_TakenMarkersDistinct ==
  calls > 0 /\ last.ranInitialize /\ last.allFitsGood
    /\ Len(last.cloud) >= SumNpts =>
    /\ Len(last.initLog) = nObjs
    /\ AllTaken \subseteq 1..Len(last.cloud)
    /\ \A i, j \in Objs : i # j => Taken(i) \cap Taken(j) = {}
    /\ \A i \in Objs :
         Cardinality(Taken(i))
           = Len(m_markerConfigurations[Before(i).m_markerConfigurationIdx])
    /\ Cardinality(AllTaken) = SumNpts
    /\ \A m, n \in AllTaken : m # n => last.cloud[m] # last.cloud[n]
    /\ {last.left[k] : k \in 1..Len(last.left)} = (1..Len(last.cloud)) \ AllTaken
    /\ Len(last.left) = Len(last.cloud) - SumNpts

\* a successful initialize on a cloud with a stray point, whose markers are
\* not in the order of the objects
C5_Witness ==
  /\ calls > 0 /\ last.ranInitialize /\ last.allFitsGood
  /\ Len(last.cloud) > SumNpts
  /\ Taken(1) = {2, 5}
  /\ Taken(2) = {1, 4}

\* C6: when ICP does not converge for an object in a frame, exactly one
\* warning is emitted for the object, its pose, velocity and last valid stamp
\* are as they were when the frame began, its valid flag is false, and the
\* objects after it are still processed.
C6_NotConvergedSkipsObject ==
  calls > 0 =>
    /\ Len(last.icp) = nObjs
    /\ Delivered
    /\ \A i \in Objs :
         ~last.icp[i].hasConverged =>
           /\ Cardinality(WarningsFor(i)) = 1
           /\ \A k \in WarningsFor(i) : last.warnings[k] = NotConvergedWarning(i)
           /\ SamePoseVelocityTime(m_objects[i], FrameStart(i))
           /\ ~m_objects[i].m_lastTransformationValid

\* the first object, accepted before, does not converge, and the second one
\* is accepted in the same frame
C6_Witness ==
  /\ calls >= 2
  /\ m_logWarn
  /\ Len(last.icp) = nObjs
  /\ Before(1).m_lastTransformationValid
  /\ ~last.icp[1].hasConverged
  /\ last.icp[2].hasConverged
  /\ m_objects[2].m_lastTransformationValid
  /\ m_objects[2].m_lastValidTransform = last.stamp

\* the checks named in the warnings emitted for object i
ChecksNamed(i) ==
  UNION {{last.warnings[k].lines[n].check : n \in 1..Len(last.warnings[k].lines)}
         : k \in WarningsFor(i)}

\* C7 (as the specification states it): when ICP converges for an object and
\* the gate rejects the pose, exactly one warning is emitted for the object,
\* the checks it names are exactly the checks that failed, at least one, and
\* the object's pose, velocity and last valid stamp are as they were when the
\* frame began.
C7_WarningNamesFailedChecks ==
  calls > 0 =>
    \A i \in Objs :
      last.icp[i].hasConverged /\ ~m_objects[i].m_lastTransformationValid =>
        /\ Cardinality(WarningsFor(i)) = 1
        /\ ChecksFailed(i) # {}
        /\ ChecksNamed(i) = ChecksFailed(i)
        /\ SamePoseVelocityTime(m_objects[i], FrameStart(i))

\* C8: while initialization keeps failing, every update call runs one more
\* attempt and emits exactly one initialization-failed warning, and the flag
\* stays false; from the call in which initialization succeeds on, no such
\* warning is emitted and no further attempt is made.
C8_RetryUntilSuccess ==
  calls > 0 =>
    /\ Delivered
    /\ ~last.before.initialized =>
         /\ last.ranInitialize
         /\ m_init_attempts = last.before.attempts + 1
         /\ last.before.attempts = calls - 1
    /\ ~last.before.initialized /\ ~last.allFitsGood =>
         /\ ~m_initialized
         /\ Cardinality(InitFailedWarnings) = 1
    /\ m_initialized => InitFailedWarnings = {}
    /\ last.before.initialized =>
         /\ ~last.ranInitialize
         /\ m_init_attempts = last.before.attempts

\* a failed attempt, then a successful one, then a call that makes none
C8_Witness ==
  /\ calls = 3
  /\ m_logWarn
  /\ last.before.initialized
  /\ m_initialized
  /\ m_init_attempts = 2
  /\ Len(last.cloud) >= SumNpts

\* C9 (as the specification states it): an initialize that fails overall
\* leaves every object's pose as it was before the update call, also the
\* objects whose own fit was accepted in the attempt.
C9_FailedAttemptKeepsPoses ==
  calls > 0 /\ last.ranInitialize /\ ~last.allFitsGood =>
    \A i \in Objs :
      FrameStart(i).m_lastTransformation = Before(i).m_lastTransformation

\* C10: update never changes the caller's cloud: after an initializing or a
\* tracking call it has the same points in the same order; the markers
\* initialize removes are removed from its own copy.
C10_CallerCloudUnchanged ==
  calls > 0 => pointCloud = last.cloud

\* an initialize that removed markers from its copy of a five-point cloud
C10_Witness ==
  /\ calls > 0
  /\ last.ranInitialize
  /\ Len(last.left) < Len(last.cloud)
  /\ Len(pointCloud) = Len(CloudGood)

\* C11: whatever frames were written with PointCloudLogger::log(millis,
\* cloud), empty clouds included, PointCloudPlayer::load of the file gives as
\* many frames, with the same timestamps and the same points, bit for bit and
\* in the same order; the end of the file after the last record ends the
\* loading without adding a frame.
C11_LogRoundTrip ==
  played.done =>
    /\ Len(timestamps) = Len(played.logged)
    /\ Len(clouds) = Len(played.logged)
    /\ \A k \in 1..Len(played.logged) :
         /\ timestamps[k] = played.logged[k].millis
         /\ clouds[k] = played.logged[k].cloud

\* three frames with 0, 4 and 7 points loaded back
C11_Witness ==
  /\ played.done
  /\ Len(played.logged) = 3
  /\ Len(clouds) = 3
  /\ Len(clouds[1]) = 0 /\ Len(clouds[2]) = 4 /\ Len(clouds[3]) = 7
  /\ timestamps = <<0, 10, 16909060>>
  /\ clouds[2][3].x = FloatNaN

\* C12 (as the specification states it): scenario S2.  A single object at the
\* identity with maxXVelocity = 2 m/s is fed its marker configuration at
\* stamp 0 ms, ICP finding it where it is, and the configuration moved by
\* 0.01 m along x at stamp 10 ms, ICP finding it there: the object is valid
\* after each of the two calls, and after the second its velocity along x is
\* 1 m/s (2 units per tick) and its x translation 0.01 m (2 units).
C12_ScenarioS2 ==
  /\ calls = 1 /\ last.stamp = 0 /\ last.cloud = CloudAtOrigin
       /\ last.allFitsGood
       /\ last.icp[1].hasConverged
       /\ last.icp[1].finalTransformation = Pose(0, 0, 0)
       /\ last.icp[1].fitnessScore = 0
     => m_objects[1].m_lastTransformationValid
  /\ calls = 2 /\ last.stamp = 1 /\ last.cloud = CloudMoved
       /\ m_init_attempts = 1
       /\ last.icp[1].hasConverged
       /\ last.icp[1].finalTransformation = Pose(2, 0, 0)
       /\ last.icp[1].fitnessScore = 0
     => /\ m_objects[1].m_lastTransformationValid
        /\ m_objects[1].m_velocity.den # 0
        /\ m_objects[1].m_velocity.num[1] = 2 * m_objects[1].m_velocity.den
        /\ m_objects[1].m_lastTransformation.t[1] = 2

\* What initialize did for object i in the last call, restated on its record:
\* the centroid of the k nearest markers is within max_deviation = closest / 3
\* of the centre the object had, and every marker of the configuration, moved
\* by the best fit, has a marker of the working cloud within (5 mm)^2.
InitEntry(i) == last.initLog[i]
CentroidNear(i) ==
  LET n == Cardinality(InitEntry(i).nearest)
      sum == SumPoints(last.cloud, InitEntry(i).before, InitEntry(i).nearest)
  IN 9 * Norm2(VSub(sum, VScale(n, center(Before(i)))))
       <= n * n * InitEntry(i).closest2
MarkersNear(i) ==
  LET objMarkers == m_markerConfigurations[Before(i).m_markerConfigurationIdx]
  IN \A k \in 1..Len(objMarkers) :
       \E pos \in 1..Len(InitEntry(i).before) :
         Norm2(VSub(last.cloud[InitEntry(i).before[pos]],
                    Apply(InitEntry(i).bestTransformation, objMarkers[k])))
           <= INIT_MAX_HAUSDORFF_DIST2
Accepted(i) == CentroidNear(i) /\ MarkersNear(i)

\* C13: initialize returns true if and only if every object passed, in that
\* attempt, both the centroid check and the check of every marker against
\* its nearest observed marker; one object that fails makes the attempt fail
\* also when every later object is accepted.
C13_SuccessIffAllAccepted ==
  calls > 0 /\ last.ranInitialize =>
    /\ Len(last.initLog) = nObjs
    /\ last.allFitsGood <=> \A i \in Objs : Accepted(i)
    /\ m_initialized <=> last.allFitsGood

\* the first object fails the centroid check, the second one is accepted and
\* takes its markers, and the attempt fails
C13_Witness ==
  /\ calls > 0 /\ last.ranInitialize
  /\ Len(last.initLog) = 2
  /\ ~CentroidNear(1)
  /\ Accepted(2)
  /\ Taken(2) # {}
  /\ ~last.allFitsGood
  /\ ~m_initialized

\* the working cloud after initialize dealt with object i
WorkingAfter(i) ==
  IF i < Len(last.initLog) THEN InitEntry(i + 1).before ELSE last.left
\* the input cloud's indices, in order, without those in S
CloudWithout(S) ==
  LET Kept(m) == m \notin S
  IN SelectSeq([m \in 1..Len(last.cloud) |-> m], Kept)

\* C14: in an initialization attempt an object that is not accepted removes
\* no point from the working cloud and keeps its pose, and the objects after
\* it are still processed, each against the input cloud less the markers that
\* the accepted objects before it took.
C14_RejectedTakesNothing ==
  calls > 0 /\ last.ranInitialize =>
    /\ Len(last.initLog) = nObjs
    /\ \A i \in 1..Len(last.initLog) :
         /\ InitEntry(i).before =
              CloudWithout(UNION {Taken(j) : j \in {j \in 1..(i - 1) : Accepted(j)}})
         /\ ~Accepted(i) =>
              /\ Taken(i) = {}
              /\ WorkingAfter(i) = InitEntry(i).before
              /\ FrameStart(i).m_lastTransformation
                   = Before(i).m_lastTransformation

\* the first object passes the centroid check and fails the marker check, and
\* the second one is then accepted against the whole cloud
C14_Witness ==
  /\ calls > 0 /\ last.ranInitialize
  /\ Len(last.initLog) = 2
  /\ CentroidNear(1) /\ ~MarkersNear(1)
  /\ InitEntry(2).before = [m \in 1..Len(last.cloud) |-> m]
  /\ Accepted(2)
  /\ Len(last.left) = Len(last.cloud) - 2

\* the smallest squared distance between the translations of two
\* initialTransformations
NominalClosest2 ==
  LET all == {Norm2(VSub(InitialTransformations[i].t, InitialTransformations[j].t)) :
                <<i, j>> \in {q \in Objs \X Objs : q[1] < q[2]}}
  IN CHOOSE m \in all : \A n \in all : m <= n

\* C15 (as the specification states it): in every initialization attempt,
\* retries after failed attempts included, max_deviation is a third of the
\* smallest distance between the objects' nominal centres, the translations
\* of their initialTransformation, and the k-nearest query of each object is
\* made at its nominal centre.
C15_NominalCentersEveryAttempt ==
  calls > 0 /\ last.ranInitialize =>
    \A i \in 1..Len(last.initLog) :
      /\ InitEntry(i).closest2 = NominalClosest2
      /\ InitEntry(i).anchor = InitialTransformations[i].t

\* the last accepted frame of object i when the last call began
LastAccepted(i) == AcceptedAt(last.before.accepted, i)

\* C16: for an object that the frame before rejected or did not converge
\* for, however many such frames there were, the frame computes dt as its
\* stamp less the stamp of the object's last accepted frame, predicts from
\* the pose and velocity committed in that frame, and hands maxXVelocity * dt
\* to ICP as max correspondence distance; if the frame passes the gate the
\* object is valid again with the frame's stamp as last valid stamp.
C16_RecoversFromLastAccepted ==
  calls > 0 =>
    \A i \in Objs :
      LastAccepted(i).ever /\ ~Before(i).m_lastTransformationValid =>
        /\ last.icp[i].dt = last.stamp - LastAccepted(i).stamp
        /\ last.icp[i].predictTransform.R = LastAccepted(i).transformation.R
        /\ last.icp[i].predictTransform.t = LastAccepted(i).transformation.t
        /\ last.icp[i].predictTransform.deltaPos =
             [num |-> VScale(last.icp[i].dt, LastAccepted(i).velocity.num),
              den |-> LastAccepted(i).velocity.den]
        /\ last.icp[i].maxCorrespondenceDistance
             = Limits(i).maxXVelocity * (last.stamp - LastAccepted(i).stamp)
        /\ last.icp[i].hasConverged /\ ChecksFailed(i) = {} =>
             /\ m_objects[i].m_lastTransformationValid
             /\ m_objects[i].m_lastValidTransform = last.stamp

\* C17: in the solution of Assignment::solve, after any setCost calls with
\* non-empty groups, every agent is mapped to at most one group, to a group
\* setCost was called with for this agent, and the groups of two different
\* agents share no task.
C17_SolutionGroupsDisjoint ==
  /\ \A p, q \in solution : p[1] = q[1] => p = q
  /\ solution \subseteq costsSet
  /\ \A p, q \in solution : p[1] # q[1] => p[2] \cap q[2] = {}

\* both agents are mapped, to groups without a common task, although each was
\* also given a group that shares a task with the other's
C17_Witness ==
  /\ Cardinality(solution) = 2
  /\ \E p, q \in costsSet : p[1] # q[1] /\ p[2] \cap q[2] # {}

====
